---- MODULE Spec2Model ----
(***************************************************************************)
(* Hostcall timing instrumentation of the wasmtime command line tool.      *)
(*                                                                         *)
(*   crates/wiggle/src/timing.rs  the thread-local store `results`, its    *)
(*                                constructor wasi_results_init and        *)
(*                                push_result                              *)
(*   src/bin/wasmtime.rs          main: run the command, then write        *)
(*                                ./wasmtime_results.txt from the store of *)
(*                                the thread that runs main                *)
(*                                                                         *)
(* Representation.                                                         *)
(*   - A u64 counter reading is a natural below U64Modulus = 2^CounterBits.*)
(*     TLC's integers are 32 bits wide, so the counter is modelled with    *)
(*     CounterBits bits instead of 64; wrap-around is kept (% U64Modulus). *)
(*   - An f64 Duration is the exact rational <<num, den>>; `ticks / 2.1`   *)
(*     is <<ticks * 10, 21>>.  Floating point rounding is not modelled.    *)
(*   - `end - start` on u64 panics when the build has overflow checks      *)
(*     (cargo's dev profile) and wraps otherwise (release profile); the    *)
(*     build is chosen in Init and never changes.                          *)
(*   - log, reports are history variables: the calls of push_result each   *)
(*     thread has made, and the number of times main ran the report loop.  *)
(***************************************************************************)
EXTENDS Integers, Sequences, FiniteSets, TLC

VARIABLES
    overflow_checks, \* the build: TRUE when integer overflow panics
    pc,              \* thread -> position (main) or life-cycle (others)
    store,           \* thread -> that thread's `results` (NoStore: not built)
    log,             \* thread -> the push_result calls it made, in order
    res,             \* main: the command's result, `res`
    ret,             \* main: the value main returned
    file,            \* ./wasmtime_results.txt
    report,          \* the lines main passed to writeln!, in order
    reports          \* how many times main ran the report loop

vars == <<overflow_checks, pc, store, log, res, ret, file, report, reports>>

---------------------------------------------------------------------------
(* Bounds *)

NumWorkers == 1     \* threads other than the one that runs main
MaxCalls == 2       \* push_result calls in one run, all threads together
CounterBits == 3    \* modelled width of a counter reading

---------------------------------------------------------------------------
(* Threads *)

Main == 0
Workers == 1..NumWorkers
Threads == {Main} \cup Workers

---------------------------------------------------------------------------
(* timing.rs *)

\* The closed set of operation names: the keys wasi_results_init inserts.
OperationNames ==
    { "args_get", "args_sizes_get", "proc_exit", "environ_sizes_get",
      "environ_get", "fd_prestat_get", "fd_write", "fd_read", "fd_close",
      "fd_seek", "clock_time_get", "clock_res_get", "fd_advise",
      "fd_allocate", "fd_datasync", "fd_fdstat_get", "fd_fdstat_set_flags",
      "fd_filestat_get", "fd_filestat_set_size", "fd_filestat_set_times",
      "fd_pread", "fd_prestat_dir_name", "fd_pwrite", "fd_readdir",
      "fd_renumber", "fd_sync", "fd_tell", "path_create_directory",
      "path_filestat_get", "path_filestat_set_times", "path_link",
      "path_open", "path_readlink", "path_remove_directory", "path_rename",
      "path_symlink", "path_unlink_file", "poll_oneoff", "proc_raise",
      "random_get", "sched_yield", "sock_recv", "sock_send",
      "sock_shutdown", "socket", "sock_connect" }

\* Names the call sites of the model pass to push_result: two registered
\* names and one that wasi_results_init does not insert.
UnregisteredNames == { "fd_bogus" }
CallSiteNames == { "fd_write", "fd_read" } \cup UnregisteredNames

\* HashMap<String, Vec<f64>> with every key mapped to Vec::new().
wasi_results_init == [n \in OperationNames |-> <<>>]

\* A thread-local that has not been initialised (or has been destroyed).
NoStore == [n \in {} |-> <<>>]

\* thread_local!: the slot the name `results` denotes on thread t.
LocalKey_global(t) == Main
LocalKey(t) == t

\* results.with: the map the closure sees, built on first touch.
With(t) ==
    IF store[LocalKey(t)] = NoStore THEN wasi_results_init
    ELSE store[LocalKey(t)]

\* u64 readings and `end - start`.
U64Modulus == 2 ^ CounterBits
Readings == { 0, U64Modulus - 1 }

Ticks_signed(start, end) == end - start
Ticks(start, end) == (end - start) % U64Modulus

\* `end - start` panics ("attempt to subtract with overflow").
SubOverflows(start, end) == overflow_checks /\ end < start

\* `ticks as f64 / 2.1`: 2.1 = ClockNum / ClockDen.
ClockNum == 21
ClockDen == 10
ToNanos(ticks) == <<ticks * ClockDen, ClockNum>>

\* index.get_mut(&name.to_owned()): <<found, map>>.
get_mut_or_insert(h, name) ==
    IF name \in DOMAIN h THEN <<TRUE, h>> ELSE <<TRUE, h @@ (name :> <<>>)>>
get_mut(h, name) == <<name \in DOMAIN h, h>>

\* vec.push(d)
VecPush_front(vec, d) == <<d>> \o vec
VecPush(vec, d) == Append(vec, d)

\* The calls of push_result made so far.
TotalCalls ==
    Cardinality({ <<t, i>> \in Threads \X (1..MaxCalls) : i <= Len(log[t]) })

\* A call of push_result, as log records it.
Call(name, start, end, outcome) ==
    [name |-> name, start |-> start, end |-> end, outcome |-> outcome]

\* One call of push_result on thread t, from results.with to its return
\* or panic.
push_result(t, name, start, end) ==
    LET k == LocalKey(t)
        got == get_mut(With(t), name)
        found == got[1]
        index == got[2]
        panics == ~found \/ SubOverflows(start, end)
    IN  /\ log' = [log EXCEPT ![t] =
                     Append(@, Call(name, start, end,
                                    IF panics THEN "panicked" ELSE "returned"))]
        /\ IF panics
           THEN /\ store' = [store EXCEPT ![k] = index]
                /\ pc' = [pc EXCEPT ![t] = "panicked"]
           ELSE /\ store' = [store EXCEPT ![k] =
                               [index EXCEPT ![name] =
                                  VecPush(@, ToNanos(Ticks(start, end)))]]
                /\ UNCHANGED pc
        /\ UNCHANGED <<overflow_checks, res, ret, file, report, reports>>

---------------------------------------------------------------------------
(* wasmtime.rs *)

\* The process is running: main has neither returned, exited nor panicked.
ProcessAlive == pc[Main] \in { "executing", "executed", "created", "reported" }

\* Thread t can dispatch a hostcall: main only inside execute().
CanDispatch(t) ==
    IF t = Main THEN pc[Main] = "executing"
    ELSE pc[t] = "running" /\ ProcessAlive

\* A dispatch site: start_timer, the hostcall body, stop_timer, push_result.
Hostcall(t) ==
    /\ CanDispatch(t)
    /\ TotalCalls < MaxCalls
    /\ \E name \in CallSiteNames, start \in Readings, end \in Readings :
          push_result(t, name, start, end)

\* A thread other than main ends (returns, or unwinds after a panic); its
\* thread-local store is destroyed.
ThreadExit(t) ==
    /\ t \in Workers
    /\ pc[t] \in { "running", "panicked" }
    /\ ProcessAlive
    /\ pc' = [pc EXCEPT ![t] = "exited"]
    /\ store' = [store EXCEPT ![LocalKey(t)] = NoStore]
    /\ UNCHANGED <<overflow_checks, log, res, ret, file, report, reports>>

\* from_iter_safe(..).unwrap_or_else(..): a command to execute, or e.exit().
ArgOutcomes == { "app", "help", "run_fallback", "usage_error" }

ParseArgs ==
    /\ pc[Main] = "start"
    /\ \E a \in ArgOutcomes :
          pc' = [pc EXCEPT ![Main] =
                   IF a \in { "app", "run_fallback" } THEN "executing"
                   ELSE "exited"]
    /\ UNCHANGED <<overflow_checks, store, log, res, ret, file, report, reports>>

\* Where main continues once execute() has returned r.
AfterExecute_try(r) == IF r = "Ok" THEN "executed" ELSE "reported"
AfterExecute(r) == "executed"

ExecuteReturns ==
    /\ pc[Main] = "executing"
    /\ \E r \in { "Ok", "Err" } :
          /\ res' = r
          /\ pc' = [pc EXCEPT ![Main] = AfterExecute(r)]
    /\ UNCHANGED <<overflow_checks, store, log, ret, file, report, reports>>

\* File::create("./wasmtime_results.txt").expect("Unable to open file")
CreateFile ==
    /\ pc[Main] = "executed"
    /\ \E created \in BOOLEAN :
          IF created
          THEN /\ file' = [exists |-> TRUE, lines |-> <<>>]
               /\ pc' = [pc EXCEPT ![Main] = "created"]
          ELSE /\ pc' = [pc EXCEPT ![Main] = "panicked"]
               /\ UNCHANGED file
    /\ UNCHANGED <<overflow_checks, store, log, res, ret, report, reports>>

\* statistical::mean(v): the sum over the count, as a rational.
RECURSIVE SumNum(_)
SumNum(v) == IF v = <<>> THEN 0 ELSE v[1][1] + SumNum(Tail(v))
Mean(v) == <<SumNum(v), ClockNum * Len(v)>>

\* statistical::univariate::geometric_mean(v): <<p, q, n>> is the n-th
\* root of p / q, the product of the samples.
RECURSIVE ProdNum(_)
ProdNum(v) == IF v = <<>> THEN 1 ELSE v[1][1] * ProdNum(Tail(v))
RECURSIVE ProdDen(_)
ProdDen(v) == IF v = <<>> THEN 1 ELSE v[1][2] * ProdDen(Tail(v))
GeoMean(v) == <<ProdNum(v), ProdDen(v), Len(v)>>

\* "{:?},{:?},{:?},{:?}", k, v.len(), mean, geomean
Line(k, v) ==
    [name |-> k, count |-> Len(v), mean |-> Mean(v), geomean |-> GeoMean(v)]

\* if !v.is_empty()
Qualifies_many(v) == Len(v) > 1
Qualifies(v) == v # <<>>

\* r.borrow().iter(): the entries in some order.  Entries the loop body
\* skips are left out of the order, which nothing observes.
Orders(S) ==
    { o \in [1..Cardinality(S) -> S] :
         \A i, j \in 1..Cardinality(S) : o[i] = o[j] => i = j }

\* The thread whose `results` the report loop reads: the one running main.
ReportedThread_last == CHOOSE t \in Threads : \A u \in Threads : u <= t
ReportedThread == Main

\* results.with(|r| for (k, v) in r.borrow().iter() { .. writeln!(..) }):
\* the whole loop.  report keeps each line with the Result of its writeln!,
\* which the code discards; the file receives the lines written with Ok.
Report ==
    /\ pc[Main] = "created"
    /\ LET h == With(ReportedThread)
           keys == { k \in DOMAIN h : Qualifies(h[k]) }
       IN  /\ \E order \in Orders(keys), failed \in SUBSET keys :
                 /\ report' = [i \in 1..Len(order) |->
                                 [line |-> Line(order[i], h[order[i]]),
                                  result |-> IF order[i] \in failed
                                             THEN "Err" ELSE "Ok"]]
                 /\ file' = [file EXCEPT !.lines =
                               SelectSeq([i \in 1..Len(order) |->
                                             Line(order[i], h[order[i]])],
                                         LAMBDA l : l.name \notin failed)]
           /\ store' = [store EXCEPT ![LocalKey(ReportedThread)] = h]
    /\ reports' = reports + 1
    /\ pc' = [pc EXCEPT ![Main] = "reported"]
    /\ UNCHANGED <<overflow_checks, log, res, ret>>

\* return res;
Return ==
    /\ pc[Main] = "reported"
    /\ ret' = res
    /\ pc' = [pc EXCEPT ![Main] = "returned"]
    /\ UNCHANGED <<overflow_checks, store, log, res, file, report, reports>>

---------------------------------------------------------------------------
(* The state machine *)

\* No report file yet.
NoFile == [exists |-> FALSE, lines |-> <<>>]

Init ==
    /\ overflow_checks \in BOOLEAN
    /\ pc = [t \in Threads |-> IF t = Main THEN "start" ELSE "running"]
    /\ store = [t \in Threads |-> NoStore]
    /\ log = [t \in Threads |-> <<>>]
    /\ res = "none"
    /\ ret = "none"
    /\ file = NoFile
    /\ report = <<>>
    /\ reports = 0

Next ==
    \/ ParseArgs
    \/ \E t \in Threads : Hostcall(t)
    \/ \E t \in Threads : ThreadExit(t)
    \/ ExecuteReturns
    \/ CreateFile
    \/ Report
    \/ Return

Spec == Init /\ [][Next]_vars

---------------------------------------------------------------------------
(* Claims *)

Last(q) == q[Len(q)]

\* The calls of thread t to name n, and those of them that returned.
Issued(t, n) == SelectSeq(log[t], LAMBDA c : c.name = n)
Returned(t, n) ==
    SelectSeq(log[t], LAMBDA c : c.name = n /\ c.outcome = "returned")

\* Thread t made a call of push_result in this step.
Called(t) == Len(log'[t]) = Len(log[t]) + 1

\* The contents thread t sees in its store: a store not yet built reads as
\* the one first touch builds.
Contents(t) == IF store[t] = NoStore THEN wasi_results_init ELSE store[t]

\* Main has run the report loop.
Reported == pc[Main] \in { "reported", "returned" }

\* C1: on every thread t and for every registered name n, the SampleSet of
\* n in t's store has as many elements as t made successful pushes to n,
\* and its i-th element is the Duration (end - start) / 2.1, the
\* difference taken in the counter's width, of the i-th of them.
C1_SamplesFollowPushes ==
    \A t \in Threads :
        store[t] # NoStore =>
            \A n \in OperationNames :
                LET pushes == Returned(t, n)
                IN  /\ Len(store[t][n]) = Len(pushes)
                    /\ \A i \in 1..Len(pushes) :
                          store[t][n][i] =
                              << ((pushes[i].end - pushes[i].start) % U64Modulus)
                                    * ClockDen, ClockNum >>

\* C1 witness: two pushes to one name on one thread left two different
\* samples, in push order.
C1_Witness ==
    \E t \in Threads :
        /\ store[t] # NoStore
        /\ Len(store[t]["fd_write"]) = 2
        /\ store[t]["fd_write"][1] # store[t]["fd_write"][2]
        /\ Len(Returned(t, "fd_write")) = 2

\* C2: a call of push_result with a name outside the closed set panics (it
\* does not return), and the calling thread's store holds after it what it
\* held before: the same keys and the same samples.
C2_UnregisteredPanics ==
    [][ \A t \in Threads :
           (Called(t) /\ Last(log'[t]).name \notin OperationNames) =>
               /\ Last(log'[t]).outcome = "panicked"
               /\ pc'[t] = "panicked"
               /\ Contents(t)' = Contents(t) ]_vars

\* C2 witness: a thread whose store holds a sample has panicked in a push
\* to an unregistered name.
C2_Witness ==
    \E t \in Threads :
        /\ log[t] # <<>>
        /\ Last(log[t]).name \notin OperationNames
        /\ Last(log[t]).outcome = "panicked"
        /\ store[t] # NoStore
        /\ store[t]["fd_write"] # <<>>

\* C3 (as claimed): once execute() has returned, main does not abort,
\* whatever creating and writing the report file does, and what it returns
\* is the command's result.
C3_ReportErrorsSwallowed ==
    /\ res # "none" => pc[Main] # "panicked"
    /\ pc[Main] = "returned" => ret = res

\* C4: the report loop runs at most once, only after execute() has produced
\* its result, and has run exactly once when main returns, whether the
\* result is Ok or Err; main returns that result unchanged.
C4_ReportOnceAfterExecute ==
    /\ reports <= 1
    /\ reports = 1 <=> Reported
    /\ reports = 1 => res # "none"
    /\ pc[Main] = "returned" => reports = 1 /\ ret = res /\ res \in { "Ok", "Err" }
    /\ pc[Main] # "returned" => ret = "none"

\* C4 witness: the command failed, the report loop ran, and main returned
\* the failure.
C4_Witness ==
    /\ pc[Main] = "returned"
    /\ res = "Err"
    /\ ret = "Err"
    /\ reports = 1

\* C5: once the report loop has run, it has emitted exactly one line for
\* each operation name whose SampleSet in the reported store is not empty,
\* carrying that name and the SampleSet's length, and no line for any
\* other name; the file holds, in order, the lines whose write succeeded.
C5_OneLinePerSampledOperation ==
    Reported =>
        /\ \A n \in OperationNames :
              LET at == { i \in 1..Len(report) : report[i].line.name = n }
              IN  IF store[Main][n] # <<>>
                  THEN /\ Cardinality(at) = 1
                       /\ \A i \in at :
                             report[i].line.count = Len(store[Main][n])
                  ELSE at = {}
        /\ \A i \in 1..Len(report) : report[i].line.name \in OperationNames
        /\ file.exists
        /\ file.lines =
              [i \in 1..Len(SelectSeq(report, LAMBDA e : e.result = "Ok")) |->
                  SelectSeq(report, LAMBDA e : e.result = "Ok")[i].line]

\* C5 witness: the reported store has a sample for one name and none for
\* another, and the one line was written.
C5_Witness ==
    /\ Reported
    /\ Len(store[Main]["fd_write"]) = 1
    /\ store[Main]["fd_read"] = <<>>
    /\ Len(report) = 1
    /\ Len(file.lines) = 1
    /\ file.lines[1].name = "fd_write"
    /\ file.lines[1].count = 1

\* A thread that has not aborted holds, for every name, as many samples as
\* it issued pushes to that name.
C6_Counts ==
    \A t \in Threads :
        pc[t] \notin { "panicked", "exited" } =>
            \A n \in OperationNames :
                Len(Contents(t)[n]) = Len(Issued(t, n))

\* A push on one thread leaves the store of every other thread unchanged.
C6_Isolation ==
    \A t \in Threads :
        Called(t) => \A u \in Threads \ {t} : store'[u] = store[u]

\* C6: under every interleaving of pushes from several threads, each
\* thread that has not aborted holds for every name exactly as many
\* samples as it issued pushes to that name itself, and a push on one
\* thread never changes the store of another thread.
C6_ThreadsAccumulateApart == []C6_Counts /\ [][C6_Isolation]_vars

\* C6 witness: main and another thread have each pushed once to the same
\* name, and each holds its own sample only.
C6_Witness ==
    \E w \in Workers :
        /\ Len(Returned(Main, "fd_write")) = 1
        /\ Len(Returned(w, "fd_write")) = 1
        /\ store[Main] # NoStore /\ store[w] # NoStore
        /\ Len(store[Main]["fd_write"]) = 1
        /\ Len(store[w]["fd_write"]) = 1
        /\ store[Main]["fd_write"] # store[w]["fd_write"]

\* A thread has touched `results` and its store has not been destroyed.
Touched(t) ==
    IF t = Main THEN log[t] # <<>> \/ reports > 0
    ELSE log[t] # <<>> /\ pc[t] # "exited"

\* C7: the store of a thread exists exactly from the thread's first touch
\* (a push, or main's report loop), and its key set is then the closed set
\* that wasi_results_init installs, after successful pushes, failing
\* pushes and the report alike.
C7_KeySetFixed ==
    \A t \in Threads :
        /\ Touched(t) => DOMAIN store[t] = OperationNames
        /\ ~Touched(t) => store[t] = NoStore
        /\ (Touched(t) /\ \A n \in OperationNames : Returned(t, n) = <<>>) =>
              store[t] = wasi_results_init

\* C7 witness: main has reported and returned, and another thread has
\* pushed successfully and then failed on an unregistered name.
C7_Witness ==
    \E w \in Workers :
        /\ pc[Main] = "returned"
        /\ pc[w] = "panicked"
        /\ Len(log[w]) = 2
        /\ log[w][1].outcome = "returned"
        /\ log[w][2].name \notin OperationNames
        /\ DOMAIN store[w] = OperationNames
        /\ DOMAIN store[Main] = OperationNames

\* The Durations of a sequence of calls.
DurationsOf(calls) ==
    [i \in 1..Len(calls) |-> ToNanos(Ticks(calls[i].start, calls[i].end))]

\* C8: every line of the report is about a name main's own thread pushed
\* to, and its count and mean are those of main's own pushes alone: a name
\* pushed to only on other threads has no line.
C8_ReportFromMainStoreOnly ==
    Reported =>
        \A i \in 1..Len(report) :
            LET own == Returned(Main, report[i].line.name)
            IN  /\ own # <<>>
                /\ report[i].line.count = Len(own)
                /\ report[i].line.mean = Mean(DurationsOf(own))

\* C8 witness: another thread holds a sample for fd_read, main pushed to
\* fd_write only, and the report has the one line for fd_write.
C8_Witness ==
    \E w \in Workers :
        /\ Reported
        /\ store[w] # NoStore
        /\ store[w]["fd_read"] # <<>>
        /\ Returned(Main, "fd_read") = <<>>
        /\ Len(report) = 1
        /\ report[1].line.name = "fd_write"

\* C9 (as claimed): every call of push_result with a registered name and
\* end < start returns normally.
C9_BackwardClockReturns ==
    \A t \in Threads :
        \A i \in 1..Len(log[t]) :
            (log[t][i].name \in OperationNames /\ log[t][i].end < log[t][i].start)
                => log[t][i].outcome = "returned"

\* C10: every Duration in every SampleSet of every thread's store is
\* non-negative.
C10_DurationsNonNegative ==
    \A t \in Threads :
        \A n \in DOMAIN store[t] :
            \A i \in 1..Len(store[t][n]) :
                /\ store[t][n][i][1] >= 0
                /\ store[t][n][i][2] > 0

\* C10 witness: a push with end < start has returned and its sample is in
\* the store.
C10_Witness ==
    \E t \in Threads :
        /\ log[t] # <<>>
        /\ Last(log[t]).outcome = "returned"
        /\ Last(log[t]).end < Last(log[t]).start
        /\ store[t] # NoStore
        /\ store[t][Last(log[t]).name] # <<>>

====
